---- MODULE Spec2Model ----
(***************************************************************************)
(* A model of the token sweep engine of src/token_sweeper.py               *)
(* (class TokenSweeper): the resumable sweep over a range of token IDs,    *)
(* the per-ID retry loop, the checkpoint load and the temp-file-and-rename *)
(* flush, and cooperative cancellation by signal.                          *)
(*                                                                         *)
(* One operating-system process runs main(): it constructs a TokenSweeper  *)
(* (which loads the checkpoint) and calls sweep_token_ids once.            *)
(*                                                                         *)
(* Spec: one process, started on any checkpoint an earlier use may have    *)
(* left (none, a complete document, a document cut short).  The server     *)
(* answers every attempt with an arbitrary response (status, stream lines) *)
(* or a transport error; every file-system call of the flush may raise     *)
(* OSError; the process may be killed at any step.                         *)
(*                                                                         *)
(* SpecResume: a process and, after it returned, a second one with the     *)
(* same arguments on the same checkpoint path, against a server that has   *)
(* one fixed answer per ID; only the first process is sent a signal.       *)
(*                                                                         *)
(* SpecStream: one process, sweeping from ID 1, whose attempts keep the     *)
(* response they read as long as it is open; no signal, no kill.           *)
(*                                                                         *)
(* SpecLive: one process that is not killed and keeps running (weak        *)
(* fairness of its steps); signals may arrive at any time.                 *)
(*                                                                         *)
(* The checkpoint found at startup holds records as the engine writes      *)
(* them.  Keys are modelled as the integers they denote.                   *)
(* Reading the checkpoint succeeds exactly when the document is complete;  *)
(* os.replace is atomic; console output never fails.                       *)
(***************************************************************************)
EXTENDS Integers, Sequences, FiniteSets, TLC

\* ------------------------------------------------------------ bounds
\* Token IDs of the model are 1..MaxId.
MaxId == 3
\* A response stream holds at most MaxLines lines.
MaxLines == 2
\* A checkpoint found at the very start holds at most MaxStored records.
MaxStored == 1

\* self.save_interval: the source configures SAVE_INTERVAL = 100; the model
\* runs the engine with a small interval, so that interval flushes happen
\* within MaxId processed IDs.
save_interval == 2
\* ------------------------------------------------------------ configuration
RETRY_ATTEMPTS == 3
HTTP_OK == 200

TokenIds == 1..MaxId

\* ------------------------------------------------------------ text and bytes
\* A text is a sequence of Unicode code points.

\* Can `token.encode("utf-8")` encode this code point?  Lone surrogates raise
\* UnicodeEncodeError.
Encodable(cp) == cp < 55296 \/ cp > 57343

\* One byte per code point, as token.encode("latin-1") would give.
Utf8CpOneByte(cp) == <<cp % 256>>

\* The UTF-8 encoding of one code point.
Utf8Cp(cp) ==
    IF cp < 128 THEN <<cp>>
    ELSE IF cp < 2048 THEN <<192 + (cp \div 64), 128 + (cp % 64)>>
    ELSE IF cp < 65536
         THEN <<224 + (cp \div 4096), 128 + ((cp \div 64) % 64), 128 + (cp % 64)>>
    ELSE <<240 + (cp \div 262144), 128 + ((cp \div 4096) % 64),
           128 + ((cp \div 64) % 64), 128 + (cp % 64)>>

RECURSIVE Utf8(_)
\* list(token.encode("utf-8"))
Utf8(text) ==
    IF text = <<>> THEN <<>> ELSE Utf8Cp(Head(text)) \o Utf8(Tail(text))

CanEncode(text) == \A i \in 1..Len(text) : Encodable(text[i])

\* Texts the server's fragments carry: "a" and "e-acute" (two bytes in UTF-8).
Texts == {<<97>>, <<233>>}
\* A lone surrogate, as json.loads yields for "\ud800".
BadText == <<55296>>

\* The entry written for token_id: {"character": token, "bytes": list(token_bytes)}
\* under the key str(token_id).
TokenRecord(id, text) == [id |-> id, character |-> text, bytes |-> Utf8(text)]

\* ------------------------------------------------------------ the TokenIndex
\* self.token_index is a dict: a sequence of entries with distinct keys, in
\* insertion order.
Keys(idx) == {idx[i].id : i \in 1..Len(idx)}

Entry(idx, k) == idx[CHOOSE i \in 1..Len(idx) : idx[i].id = k]

\* The dict as a mapping, without its order (dict equality).
AsMap(idx) == [k \in Keys(idx) |-> Entry(idx, k)]

Entries(idx) == {idx[i] : i \in 1..Len(idx)}

\* str(token_id) in self.token_index
AlreadyMappedNever(idx, id) == FALSE
AlreadyMapped(idx, id) == id \in Keys(idx)

\* self.token_index = {str(token_id): record}: the dict replaced by a new one.
StoreAlone(idx, rec) == <<rec>>

\* self.token_index[str(token_id)] = record: replaces in place, or appends.
Store(idx, rec) ==
    IF rec.id \in Keys(idx)
    THEN [i \in 1..Len(idx) |-> IF idx[i].id = rec.id THEN rec ELSE idx[i]]
    ELSE Append(idx, rec)

RECURSIVE InsertSorted(_, _)
InsertSorted(s, e) ==
    IF s = <<>> THEN <<e>>
    ELSE IF e.id < Head(s).id THEN <<e>> \o s
    ELSE <<Head(s)>> \o InsertSorted(Tail(s), e)

\* The insertion order written as it is.
SortByIdKeepingOrder(idx) == idx

SortByIdDroppingLast(idx) ==
    LET RECURSIVE Sorted(_)
        Sorted(q) ==
            IF q = <<>> THEN <<>>
            ELSE InsertSorted(Sorted(SubSeq(q, 1, Len(q) - 1)), q[Len(q)])
    IN  IF idx = <<>> THEN <<>> ELSE SubSeq(Sorted(idx), 1, Len(idx) - 1)

RECURSIVE SortById(_)
\* {k: self.token_index[k] for k in sorted(self.token_index, key=int)}
SortById(idx) ==
    IF idx = <<>> THEN <<>>
    ELSE InsertSorted(SortById(SubSeq(idx, 1, Len(idx) - 1)), idx[Len(idx)])

\* ------------------------------------------------------------ files
\* A file is absent, or holds the entries written so far; it is a parseable
\* JSON document only when the closing brace was written (complete).
Absent == [kind |-> "absent", entries |-> <<>>, complete |-> FALSE]
Document(entries) == [kind |-> "file", entries |-> entries, complete |-> TRUE]
Truncated(entries) == [kind |-> "file", entries |-> entries, complete |-> FALSE]

Exists(f) == f.kind = "file"
Parseable(f) == Exists(f) /\ f.complete

\* The two paths: self.output_file and its sibling temp file.
output_file == "out"
temp_file_in_place == "out"
temp_file == "tmp"
Paths == {"out", "tmp"}

\* os.replace / os.rename: atomic; the source path disappears.
Rename(files, src, dst) ==
    IF src = dst THEN files
    ELSE [files EXCEPT ![dst] = files[src], ![src] = Absent]

\* _load_existing_mappings: the parsed document, or {} when the file is
\* absent or json.load raises.
LoadExistingMappings(files) ==
    IF Exists(files[output_file])
    THEN IF Parseable(files[output_file])
         THEN files[output_file].entries
         ELSE <<>>
    ELSE <<>>

\* ------------------------------------------------------------ the server
\* One line of a streamed response, as the loop over iter_lines() sees it.
Lines ==
    {[type |-> "empty", text |-> <<>>],          \* keep-alive: `if not chunk`
     [type |-> "done", text |-> <<>>],           \* data: [DONE]
     [type |-> "invalid_json", text |-> <<>>],   \* json.loads raises JSONDecodeError
     [type |-> "no_text", text |-> <<>>]}        \* JSON without choices[0].text
    \cup {[type |-> "fragment", text |-> t] : t \in Texts \cup {BadText}}

RECURSIVE SeqsUpTo(_, _)
SeqsUpTo(S, n) ==
    IF n = 0 THEN {<<>>}
    ELSE LET shorter == SeqsUpTo(S, n - 1)
         IN  shorter \cup {Append(s, x) : s \in shorter, x \in S}

\* What requests.post gives: a transport error (exception), or a status and
\* a stream of lines.
Responses ==
    {[kind |-> "transport_error", status |-> 0, lines |-> <<>>]}
    \cup {[kind |-> "http", status |-> 500, lines |-> <<>>]}
    \cup {[kind |-> "http", status |-> HTTP_OK, lines |-> l] :
            l \in SeqsUpTo(Lines, MaxLines)}

RECURSIVE ReadStreamKeepingLast(_)
\* The loop without its `return True`: every fragment of the stream is
\* stored in turn, the last one staying.
ReadStreamKeepingLast(lines) ==
    IF lines = <<>> THEN [end |-> "exhausted", text |-> <<>>]
    ELSE LET chunk == Head(lines)
             rest == ReadStreamKeepingLast(Tail(lines))
         IN  CASE chunk.type \in {"empty", "done", "invalid_json"} -> rest
               [] chunk.type = "no_text" -> [end |-> "raised", text |-> <<>>]
               [] chunk.type = "fragment" ->
                    IF CanEncode(chunk.text)
                    THEN IF rest.end = "stored" THEN rest
                         ELSE [end |-> "stored", text |-> chunk.text]
                    ELSE [end |-> "raised", text |-> <<>>]

RECURSIVE ReadStream(_)
\* The loop over response.iter_lines() of _process_token_id: how it ends, and
\* the text it stores: "stored" (the record is written, return True),
\* "raised" (an exception other than JSONDecodeError leaves the loop),
\* "exhausted" (the stream ended without a usable fragment).
ReadStream(lines) ==
    IF lines = <<>> THEN [end |-> "exhausted", text |-> <<>>]
    ELSE LET chunk == Head(lines) IN
         CASE chunk.type \in {"empty", "done", "invalid_json"} ->
                ReadStream(Tail(lines))
           [] chunk.type = "no_text" -> [end |-> "raised", text |-> <<>>]
           [] chunk.type = "fragment" ->
                IF CanEncode(chunk.text)
                THEN [end |-> "stored", text |-> chunk.text]
                ELSE [end |-> "raised", text |-> <<>>]

\* One attempt of _process_token_id on a response: "stored", "raised" (except
\* Exception), "status" (non-200), "exhausted" (200, no usable fragment).
AttemptOnce(resp) ==
    IF resp.kind = "transport_error" THEN [end |-> "raised", text |-> <<>>]
    ELSE IF resp.status = HTTP_OK THEN ReadStream(resp.lines)
    ELSE [end |-> "status", text |-> <<>>]

\* The ways an attempt can end, over all responses.
AttemptEnds == {AttemptOnce(resp) : resp \in Responses}

\* self.token_index after an attempt that ended as r: the record is written
\* only where the fragment's text was read and encoded.
IndexAfterRecordingFailure(r, id, idx) ==
    IF r.end \in {"stored", "exhausted"}
    THEN Store(idx, TokenRecord(id, r.text))
    ELSE idx
IndexAfter(r, id, idx) ==
    IF r.end = "stored" THEN Store(idx, TokenRecord(id, r.text)) ELSE idx

\* for token_id in range(start_id, end_id + 1): is id still in the range?
InRangeExclusive(id, last_id) == id < last_id
InRange(id, last_id) == id <= last_id

\* for token_id in range(start_id, end_id + 1): the ID after id.
NextIdSkipping(id) == id + 2
NextId(id) == id + 1

\* attempt == RETRY_ATTEMPTS - 1
IsLastAttemptEarly(attempt) == attempt = RETRY_ATTEMPTS - 2
IsLastAttempt(attempt) == attempt = RETRY_ATTEMPTS - 1

\* if self.should_exit: the check at the top of each iteration.
ExitRequestedNever(flag) == FALSE
ExitRequested(flag) == flag

\* self.token_counter >= self.save_interval
IntervalReachedLate(counter) == counter > save_interval
IntervalReached(counter) == counter >= save_interval

\* The condition of the final save: self.token_counter > 0
FinalSaveNever(counter) == FALSE
FinalSaveDue(counter) == counter > 0

\* self.stats after _process_token_id returned ok: successful or failed, and
\* total_processed.
StatsAfterForgettingFailed(st, ok) ==
    [st EXCEPT !.successful = IF ok THEN @ + 1 ELSE @,
               !.total_processed = @ + 1]
StatsAfter(st, ok) ==
    [st EXCEPT !.successful = IF ok THEN @ + 1 ELSE @,
               !.failed = IF ok THEN @ ELSE @ + 1,
               !.total_processed = @ + 1]

\* ------------------------------------------------------------ state
VARIABLES
    files,          \* path -> file: the checkpoint and its temp sibling
    alive,          \* a process is running
    pc,             \* where the process is
    token_index,    \* self.token_index
    should_exit,    \* self.should_exit
    token_counter,  \* self.token_counter
    stats,          \* self.stats (without start_time)
    start_id,       \* the arguments of sweep_token_ids
    end_id,
    token_id,       \* the loop variable of sweep_token_ids
    attempt,        \* the loop variable of _process_token_id
    success,        \* what _process_token_id returned
    caller,         \* which call of _save_mappings runs: "interval" or "final"
    tries,          \* history: requests issued for token_id in this call
    loaded,         \* history: the index this process loaded at construction
    found,          \* history: the checkpoint file this process found
    failedIds,      \* history: the IDs this run counted as failed
    saveErrors,     \* history: a flush of this run raised
    left,           \* history: how the loop was left: "exhausted" or "break"
    intervalSaves,  \* history: the save counter reached the interval in this run
    last,           \* history: how the previous process ended, and what it loaded
    capability,     \* the server's fixed answer per ID, where it has one
    response        \* history: the response the attempt in progress has read

vars ==
    <<files, alive, pc, token_index, should_exit, token_counter, stats,
      start_id, end_id, token_id, attempt, success, caller, tries, loaded,
      found, failedIds, saveErrors, left, intervalSaves, last, capability, response>>

loopVars ==
    <<token_index, should_exit, token_counter, stats, start_id, end_id,
      token_id, attempt, success, caller, tries, loaded, found, failedIds,
      saveErrors, intervalSaves>>

\* How a resolution of an ID ended.
Unknown == [kind |-> "unknown", text |-> <<>>]
Failure == [kind |-> "failure", text |-> <<>>]
Resolved(t) == [kind |-> "resolved", text |-> t]

ZeroStats == [total_processed |-> 0, successful |-> 0, failed |-> 0, skipped |-> 0]

NoRun == [ended |-> "none", loaded |-> <<>>]

\* No response is open: outside the `with requests.post(...)` block.
NoResponse == [kind |-> "none", status |-> 0, lines |-> <<>>]

\* The records a checkpoint left by earlier use may hold.
StoredRecords == {TokenRecord(i, <<233>>) : i \in TokenIds}

DistinctKeys(s) == \A i, j \in 1..Len(s) : i # j => s[i].id # s[j].id

\* The checkpoint file before the first process: none, a complete document
\* (in any key order), or one cut short.
InitialCheckpoints ==
    {Absent}
    \cup {Document(s) : s \in {q \in SeqsUpTo(StoredRecords, MaxStored) : DistinctKeys(q)}}
    \cup {Truncated(s) : s \in {q \in SeqsUpTo(StoredRecords, MaxStored) : DistinctKeys(q)}}

InitState ==
    /\ files \in {[p \in Paths |-> IF p = output_file THEN c ELSE Absent] :
                    c \in InitialCheckpoints}
    /\ alive = FALSE
    /\ pc = "start"
    /\ token_index = <<>>
    /\ should_exit = FALSE
    /\ token_counter = 0
    /\ stats = ZeroStats
    /\ start_id \in TokenIds
    /\ end_id \in TokenIds
    /\ token_id = 1
    /\ attempt = 0
    /\ success = FALSE
    /\ caller = "none"
    /\ tries = 0
    /\ loaded = <<>>
    /\ found = Absent
    /\ failedIds = {}
    /\ saveErrors = FALSE
    /\ left = "none"
    /\ intervalSaves = FALSE
    /\ last = NoRun
    /\ response = NoResponse

Init ==
    /\ InitState
    /\ capability = [i \in TokenIds |-> Unknown]

\* How the process that is now over ended.
Ended ==
    IF alive THEN (IF left = "break" THEN "cancelled" ELSE "completed")
    ELSE IF pc = "start" THEN "none" ELSE "killed"

\* TokenSweeper.__init__ and the entry of sweep_token_ids(start_id, end_id):
\* the checkpoint is loaded, the counters are zeroed, the signal handlers are
\* registered, and the loop starts at start_id.
Construct ==
    /\ token_id' = start_id
    /\ alive' = TRUE
    /\ pc' = "loop"
    /\ token_index' = LoadExistingMappings(files)
    /\ loaded' = LoadExistingMappings(files)
    /\ found' = files[output_file]
    /\ should_exit' = FALSE
    /\ token_counter' = 0
    /\ stats' = ZeroStats
    /\ attempt' = 0
    /\ success' = FALSE
    /\ caller' = "none"
    /\ tries' = 0
    /\ failedIds' = {}
    /\ saveErrors' = FALSE
    /\ left' = "none"
    /\ intervalSaves' = FALSE
    /\ UNCHANGED <<files, start_id, end_id, capability, response>>

\* main(): the first process on this checkpoint path.
Main ==
    /\ pc = "start"
    /\ Construct
    /\ UNCHANGED last

\* main() once more, with the same arguments, after the first process
\* returned: the resumption of its sweep.
MainAgain ==
    /\ pc # "start"
    /\ \/ ~alive
       \/ pc = "done"
    /\ last.ended = "none"
    /\ Construct
    /\ last' = [ended |-> Ended, loaded |-> loaded]

\* _handle_exit: SIGINT or SIGTERM arrives while the handlers are registered.
HandleExit ==
    /\ alive
    /\ pc # "done"
    /\ should_exit' = TRUE
    /\ UNCHANGED <<files, alive, pc, token_index, token_counter, stats, start_id,
                   end_id, token_id, attempt, success, caller, tries, loaded,
                   found, failedIds, saveErrors, left, intervalSaves, last, capability, response>>

\* The for loop is exhausted: to the finally clause.
LoopExhausted ==
    /\ alive /\ pc = "loop"
    /\ ~InRange(token_id, end_id)
    /\ pc' = "finally"
    /\ left' = "exhausted"
    /\ UNCHANGED <<files, alive, last, capability, response>>
    /\ UNCHANGED loopVars

\* if self.should_exit: break
LoopBreak ==
    /\ alive /\ pc = "loop"
    /\ InRange(token_id, end_id)
    /\ ExitRequested(should_exit)
    /\ pc' = "finally"
    /\ left' = "break"
    /\ UNCHANGED <<files, alive, last, capability, response>>
    /\ UNCHANGED loopVars

\* if str(token_id) in self.token_index: skipped += 1; continue
LoopSkip ==
    /\ alive /\ pc = "loop"
    /\ InRange(token_id, end_id)
    /\ ~ExitRequested(should_exit)
    /\ AlreadyMapped(token_index, token_id)
    /\ stats' = [stats EXCEPT !.skipped = @ + 1]
    /\ token_id' = NextId(token_id)
    /\ UNCHANGED <<files, alive, pc, token_index, should_exit, token_counter,
                   start_id, end_id, attempt, success, caller, tries, loaded,
                   found, failedIds, saveErrors, left, intervalSaves, last, capability, response>>

\* success = self._process_token_id(token_id): the call starts, attempt 0.
LoopProcess ==
    /\ alive /\ pc = "loop"
    /\ InRange(token_id, end_id)
    /\ ~ExitRequested(should_exit)
    /\ ~AlreadyMapped(token_index, token_id)
    /\ pc' = "attempt"
    /\ attempt' = 0
    /\ tries' = 0
    /\ UNCHANGED <<files, alive, token_index, should_exit, token_counter, stats,
                   start_id, end_id, token_id, success, caller, loaded, found,
                   failedIds, saveErrors, left, intervalSaves, last, capability, response>>

\* One pass of the retry loop's body, ending as r: the request, the stream,
\* and where the attempt leaves _process_token_id.
AttemptOn(r) ==
    /\ alive /\ pc = "attempt"
    /\ token_index' = IndexAfter(r, token_id, token_index)
    /\ IF r.end = "stored"
       THEN pc' = "returned" /\ success' = TRUE
       ELSE IF r.end \in {"status", "raised"} /\ IsLastAttempt(attempt)
       THEN pc' = "returned" /\ success' = FALSE
       ELSE pc' = "sleep" /\ success' = success
    /\ tries' = tries + 1
    /\ UNCHANGED <<files, alive, should_exit, token_counter, stats, start_id,
                   end_id, token_id, attempt, caller, loaded, found, failedIds,
                   saveErrors, left, intervalSaves, last, capability>>

\* An attempt, ending in any of the ways a response can make it end.
Attempt ==
    /\ \E r \in AttemptEnds : AttemptOn(r)
    /\ UNCHANGED response

\* An attempt, the response it reads kept for the record.
AttemptRecorded ==
    \E resp \in Responses :
        /\ AttemptOn(AttemptOnce(resp))
        /\ response' = resp

\* time.sleep(RETRY_DELAY), then the next attempt, or `return False` when
\* range(RETRY_ATTEMPTS) is exhausted.
Sleep ==
    /\ alive /\ pc = "sleep"
    /\ IF attempt + 1 < RETRY_ATTEMPTS
       THEN pc' = "attempt" /\ attempt' = attempt + 1 /\ success' = success
       ELSE pc' = "returned" /\ attempt' = attempt /\ success' = FALSE
    /\ UNCHANGED <<files, alive, token_index, should_exit, token_counter, stats,
                   start_id, end_id, token_id, caller, tries, loaded, found,
                   failedIds, saveErrors, left, intervalSaves, last, capability>>
    /\ response' = NoResponse

\* How this resolution of token_id ended.
Resolution ==
    IF success THEN Resolved(Entry(token_index, token_id).character) ELSE Failure

\* Back in the loop: the statistics, the save counter, and the interval check.
Returned ==
    /\ alive /\ pc = "returned"
    /\ stats' = StatsAfter(stats, success)
    /\ failedIds' = IF success THEN failedIds ELSE failedIds \cup {token_id}
    /\ token_counter' = token_counter + 1
    /\ IF IntervalReached(token_counter + 1)
       THEN /\ pc' = "save_open"
            /\ caller' = "interval"
            /\ intervalSaves' = TRUE
            /\ token_id' = token_id
       ELSE /\ pc' = "loop"
            /\ caller' = caller
            /\ intervalSaves' = intervalSaves
            /\ token_id' = NextId(token_id)
    /\ UNCHANGED <<files, alive, token_index, should_exit, start_id, end_id,
                   attempt, success, tries, loaded, found, saveErrors, left,
                   last, capability>>
    /\ response' = NoResponse

\* The finally clause: if self.token_counter > 0: self._save_mappings()
Finally ==
    /\ alive /\ pc = "finally"
    /\ IF FinalSaveDue(token_counter)
       THEN pc' = "save_open" /\ caller' = "final"
       ELSE pc' = "done" /\ caller' = caller
    /\ UNCHANGED <<files, alive, token_index, should_exit, token_counter, stats,
                   start_id, end_id, token_id, attempt, success, tries, loaded,
                   found, failedIds, saveErrors, left, intervalSaves, last, capability, response>>

\* The call of _save_mappings ends sweep_token_ids, whoever called.
AfterSaveReturning ==
    /\ pc' = "done"
    /\ token_counter' = token_counter
    /\ token_id' = token_id

\* _save_mappings is over (it returned, or its except clause printed): back
\* to the call site.  After the interval save: token_counter = 0 and the next
\* ID; after the final save, sweep_token_ids returns.
AfterSave ==
    /\ pc' = IF caller = "interval" THEN "loop" ELSE "done"
    /\ token_counter' = IF caller = "interval" THEN 0 ELSE token_counter
    /\ token_id' = IF caller = "interval" THEN NextId(token_id) ELSE token_id

\* open(temp_file, "w"): the file is created or emptied, or open raises.
SaveOpen ==
    /\ alive /\ pc = "save_open"
    /\ \/ /\ files' = [files EXCEPT ![temp_file] = Truncated(<<>>)]
          /\ pc' = "save_write"
          /\ UNCHANGED <<token_counter, token_id, saveErrors>>
       \/ /\ AfterSave
          /\ saveErrors' = TRUE
          /\ UNCHANGED files
    /\ UNCHANGED <<alive, token_index, should_exit, stats, start_id, end_id,
                   attempt, success, caller, tries, loaded, found, failedIds,
                   left, intervalSaves, last, capability, response>>

\* json.dump(sorted_token_index, f) and the close: the whole document is in
\* the file, or a write raises with only the first n entries in it.
SaveWrite ==
    /\ alive /\ pc = "save_write"
    /\ LET sorted_token_index == SortById(token_index) IN
       \/ /\ files' = [files EXCEPT ![temp_file] = Document(sorted_token_index)]
          /\ pc' = "save_replace"
          /\ UNCHANGED <<token_counter, token_id, saveErrors>>
       \/ /\ \E n \in 0..Len(sorted_token_index) :
                files' = [files EXCEPT
                            ![temp_file] = Truncated(SubSeq(sorted_token_index, 1, n))]
          /\ AfterSave
          /\ saveErrors' = TRUE
    /\ UNCHANGED <<alive, token_index, should_exit, stats, start_id, end_id,
                   attempt, success, caller, tries, loaded, found, failedIds,
                   left, intervalSaves, last, capability, response>>

\* if os.path.exists(temp_file): os.replace / os.rename onto output_file
\* (both rename atomically), or the rename raises.
SaveReplace ==
    /\ alive /\ pc = "save_replace"
    /\ \/ /\ files' = IF Exists(files[temp_file])
                      THEN Rename(files, temp_file, output_file)
                      ELSE files
          /\ saveErrors' = saveErrors
       \/ /\ saveErrors' = TRUE
          /\ UNCHANGED files
    /\ AfterSave
    /\ UNCHANGED <<alive, token_index, should_exit, stats, start_id, end_id,
                   attempt, success, caller, tries, loaded, found, failedIds,
                   left, intervalSaves, last, capability, response>>

\* The process is killed (SIGKILL): it stops where it is.  A kill during
\* json.dump can leave any part of the document in the temp file.
Kill ==
    /\ alive /\ pc # "done"
    /\ alive' = FALSE
    /\ IF pc = "save_write"
       THEN \E n \in 0..Len(SortById(token_index)) :
                files' = [files EXCEPT
                            ![temp_file] = Truncated(SubSeq(SortById(token_index), 1, n))]
       ELSE UNCHANGED files
    /\ UNCHANGED <<pc, token_index, should_exit, token_counter, stats, start_id,
                   end_id, token_id, attempt, success, caller, tries, loaded,
                   found, failedIds, saveErrors, left, intervalSaves,
                   last, capability, response>>

\* The server has a fixed answer per ID: a resolution that ends, ends as
\* capability says (an attempt may still fail before one succeeds).
AttemptFixed ==
    /\ Attempt
    /\ pc' = "returned" => Resolution' = capability[token_id]

\* The signal reaches the first process, not its resumption.
HandleExitFirst ==
    /\ last.ended = "none"
    /\ HandleExit

SleepFixed ==
    /\ Sleep
    /\ pc' = "returned" => Resolution' = capability[token_id]

Next ==
    \/ Main
    \/ HandleExit
    \/ LoopExhausted
    \/ LoopBreak
    \/ LoopSkip
    \/ LoopProcess
    \/ Attempt
    \/ Sleep
    \/ Returned
    \/ Finally
    \/ SaveOpen
    \/ SaveWrite
    \/ SaveReplace
    \/ Kill

Spec == Init /\ [][Next]_vars

\* A sweep and its resumptions against a server with a fixed answer per ID.
InitResume ==
    /\ InitState
    /\ capability \in [TokenIds -> {Failure, Resolved(<<97>>)}]

NextResume ==
    \/ Main
    \/ MainAgain
    \/ HandleExitFirst
    \/ LoopExhausted
    \/ LoopBreak
    \/ LoopSkip
    \/ LoopProcess
    \/ AttemptFixed
    \/ SleepFixed
    \/ Returned
    \/ Finally
    \/ SaveOpen
    \/ SaveWrite
    \/ SaveReplace

SpecResume == InitResume /\ [][NextResume]_vars

\* A sweep in which the response read by each attempt is kept until the
\* attempt's `with` block is left; no signal, no kill.
NextStream ==
    \/ Main
    \/ LoopExhausted
    \/ LoopSkip
    \/ LoopProcess
    \/ AttemptRecorded
    \/ Sleep
    \/ Returned
    \/ Finally
    \/ SaveOpen
    \/ SaveWrite
    \/ SaveReplace

\* The sweeps from ID 1 on, started on no checkpoint or on a readable one.
InitStream ==
    /\ Init
    /\ start_id = 1
    /\ Exists(files[output_file]) => Parseable(files[output_file])

SpecStream == InitStream /\ [][NextStream]_vars

\* A step of the process: the interpreter runs the next statement of main().
SweeperStep ==
    \/ Main
    \/ LoopExhausted
    \/ LoopBreak
    \/ LoopSkip
    \/ LoopProcess
    \/ Attempt
    \/ Sleep
    \/ Returned
    \/ Finally
    \/ SaveOpen
    \/ SaveWrite
    \/ SaveReplace

\* A process that is not killed: it keeps running its statements, every
\* request, sleep and file call returning or raising in the end (requests.post
\* has timeout=10); signals arrive when they arrive.
NextLive ==
    \/ Main
    \/ HandleExit
    \/ LoopExhausted
    \/ LoopBreak
    \/ LoopSkip
    \/ LoopProcess
    \/ Attempt
    \/ Sleep
    \/ Returned
    \/ Finally
    \/ SaveOpen
    \/ SaveWrite
    \/ SaveReplace

SpecLive == Init /\ [][NextLive]_vars /\ WF_vars(SweeperStep)

\* ============================================================ claims
\* The sweeper took a step (not the signal handler, not a kill).
Stepped == alive /\ alive' /\ <<pc, token_id, attempt>>' # <<pc, token_id, attempt>>

\* The records of a checkpoint document that a load would read.
Readable(f) == IF Parseable(f) THEN Entries(f.entries) ELSE {}

\* ------------------------------------------------------------ C1
\* C1: atomic checkpoint.  Every step, a kill included, leaves the checkpoint
\* file as it was, except the rename at the end of a flush, which puts the new
\* complete snapshot of the index there: the file is never a partly written
\* document of this process.
AtomicCheckpoint ==
    [][\/ files'[output_file] = files[output_file]
       \/ /\ alive /\ alive' /\ pc = "save_replace"
          /\ files'[output_file] = Document(SortById(token_index))]_vars

\* C1 witness: killed mid-flush, the temp file written and the rename not yet
\* applied; the checkpoint is still the complete document found at startup.
KilledMidFlush ==
    /\ ~alive /\ pc = "save_replace"
    /\ Parseable(files[temp_file])
    /\ Parseable(found)
    /\ files[output_file] = found
    /\ files[temp_file] # found

\* ------------------------------------------------------------ C2
RECURSIVE UninterruptedSweep(_, _, _)
\* The index one uninterrupted sweep_token_ids(i, b) builds from idx, the
\* server answering as capability says.
UninterruptedSweep(idx, i, b) ==
    IF i > b THEN idx
    ELSE IF AlreadyMapped(idx, i) THEN UninterruptedSweep(idx, i + 1, b)
    ELSE IF capability[i].kind = "resolved"
    THEN UninterruptedSweep(Store(idx, TokenRecord(i, capability[i].text)), i + 1, b)
    ELSE UninterruptedSweep(idx, i + 1, b)

\* C2: idempotent resume.  When the resumption of a cancelled sweep has run to
\* the end of the range, its index equals the index one uninterrupted sweep of
\* the range builds from what the cancelled process had loaded.
IdempotentResume ==
    (alive /\ pc = "done" /\ last.ended = "cancelled" /\ left = "exhausted")
        => AsMap(token_index) = AsMap(UninterruptedSweep(last.loaded, start_id, end_id))

\* C2 witness: the first process was cancelled part-way, and its resumption
\* skipped what the first had saved and resolved more itself.
ResumedAfterCancel ==
    /\ alive /\ pc = "done" /\ last.ended = "cancelled" /\ left = "exhausted"
    /\ Len(loaded) > Len(last.loaded)
    /\ stats.skipped > 0
    /\ stats.successful > 0

\* ------------------------------------------------------------ C3
\* C3: skip of already-mapped IDs.  At the top of an iteration that is not
\* cancelled, with the ID's key in the index, the step of the sweeper counts one
\* skip, moves to the next ID, issues no request and leaves the index alone.
SkipAlreadyMapped ==
    [][(/\ Stepped
        /\ pc = "loop" /\ token_id <= end_id /\ ~should_exit
        /\ token_id \in Keys(token_index))
       => /\ pc' = "loop"
          /\ token_id' = token_id + 1
          /\ stats' = [stats EXCEPT !.skipped = @ + 1]
          /\ token_index' = token_index
          /\ tries' = tries
          /\ attempt' = attempt]_vars

\* C3 witness: the first ID of the range was loaded from the checkpoint and
\* has been skipped.
SkippedLoaded ==
    /\ alive /\ pc = "loop"
    /\ token_id = start_id + 1
    /\ start_id \in Keys(loaded)
    /\ stats.skipped = 1
    /\ token_index = loaded

\* ------------------------------------------------------------ C4
\* A record of the index that a load of the checkpoint file would not give.
Unsaved == Entries(token_index) \ Readable(files[output_file]) # {}

\* C4: final flush on every loop exit.  When the loop has been left with a
\* record in the index that is not in the checkpoint file, the finally clause
\* calls _save_mappings before sweep_token_ids returns.
FinalFlushOnEveryExit ==
    [][(Stepped /\ pc = "finally" /\ Unsaved)
       => (pc' = "save_open" /\ caller' = "final")]_vars

\* ------------------------------------------------------------ C5
\* The records this process resolved itself.
ResolvedHere == {rec \in Entries(token_index) : rec.id \notin Keys(loaded)}

CooperativeCancellation ==
    [][/\ should_exit /\ pc # "start" => should_exit'
       /\ (should_exit' # should_exit /\ pc # "start")
            => UNCHANGED <<files, alive, pc, token_index, token_counter, stats,
                           start_id, end_id, token_id, attempt, success, caller,
                           tries>>
       /\ (Stepped /\ should_exit /\ pc \in {"attempt", "sleep"})
            => /\ pc' \in {"attempt", "sleep", "returned"}
               /\ token_id' = token_id
               /\ (pc' = "returned" /\ ~success') => tries' = RETRY_ATTEMPTS
       /\ (Stepped /\ should_exit /\ pc = "loop")
            => (pc' = "finally" /\ tries' = tries /\ token_index' = token_index)]_vars

\* C6 witness: the flag is set and the ID in progress makes its last attempt.
CancelledMidId ==
    /\ alive /\ should_exit
    /\ pc = "attempt" /\ attempt = RETRY_ATTEMPTS - 1

\* ------------------------------------------------------------ C7
\* C7: retry exhaustion.  _process_token_id returns failure only after exactly
\* RETRY_ATTEMPTS requests, and success at its k-th attempt after exactly k;
\* from there the sweep goes on to the next ID (through the interval save when
\* one is due).
RetryExhaustion ==
    /\ [](pc = "returned" =>
            /\ ~success => tries = RETRY_ATTEMPTS
            /\ success => (tries = attempt + 1 /\ tries <= RETRY_ATTEMPTS))
    /\ [][/\ (Stepped /\ pc = "returned")
               => \/ pc' = "loop" /\ token_id' = token_id + 1
                  \/ pc' = "save_open" /\ caller' = "interval" /\ token_id' = token_id
          /\ (Stepped /\ pc' = "loop" /\ caller = "interval"
                /\ pc \in {"save_open", "save_write", "save_replace"})
               => token_id' = token_id + 1]_vars

\* C7 witness: an ID has failed after its three attempts, one of them a 200
\* response without a usable fragment.
RetriesExhausted ==
    /\ alive /\ pc = "returned" /\ ~success
    /\ tries = RETRY_ATTEMPTS
    /\ attempt = RETRY_ATTEMPTS - 1

\* ------------------------------------------------------------ C8
\* C8: a failure is recorded only in statistics.  No ID counted as failed has
\* a key in the index or in a checkpoint document, and within
\* _process_token_id only the step that returns True changes the index.
FailureOnlyInStats ==
    /\ [](/\ failedIds \cap Keys(token_index) = {}
          /\ \A p \in Paths :
                Parseable(files[p]) => failedIds \cap Keys(files[p].entries) = {}
          /\ stats.failed = Cardinality(failedIds))
    /\ [][(Stepped /\ pc \in {"attempt", "sleep"} /\ ~(pc' = "returned" /\ success'))
            => token_index' = token_index]_vars

\* C8 witness: the run returned with a failed ID and a checkpoint that it
\* wrote after the failure.
FailedAndSaved ==
    /\ alive /\ pc = "done"
    /\ stats.failed > 0
    /\ stats.successful > 0
    /\ ~saveErrors
    /\ Readable(files[output_file]) = Entries(token_index)

\* ------------------------------------------------------------ C9
\* C9: corrupt-checkpoint tolerance without data loss.  When the checkpoint
\* found at startup could not be loaded, the index started empty and the
\* content found is still on disk, at its path or at another.
CorruptCheckpointKept ==
    (pc # "start" /\ Exists(found) /\ ~Parseable(found))
        => /\ loaded = <<>>
           /\ \E p \in Paths : files[p] = found

\* ------------------------------------------------------------ C10
\* C10: the checkpoint file is only ever extended.  No step removes the file
\* or a record from it, or changes a record in it.
CheckpointOnlyExtended ==
    [][/\ Exists(files[output_file]) => Exists(files'[output_file])
       /\ Entries(files[output_file].entries)
             \subseteq Entries(files'[output_file].entries)]_vars

\* ------------------------------------------------------------ C11
\* The entries are in strictly ascending order of their numeric IDs.
StrictlyAscending(entries) ==
    \A i \in 1..(Len(entries) - 1) : entries[i].id < entries[i + 1].id

\* C11: sort invariant.  Every step that changes the checkpoint file (the
\* rename of a successful flush) leaves a complete document that holds every
\* entry of the index, in strictly ascending order of ID.
SortInvariant ==
    [][(files'[output_file] # files[output_file])
         => /\ Parseable(files'[output_file])
            /\ StrictlyAscending(files'[output_file].entries)
            /\ Entries(files'[output_file].entries) = Entries(token_index)]_vars

\* C11 witness: a flush has succeeded while the index, in insertion order,
\* has a higher ID (loaded from the checkpoint) before a lower one (resolved
\* in this run); the document written is in ascending order.
SortedDespiteInsertionOrder ==
    /\ alive
    /\ ~StrictlyAscending(token_index)
    /\ files[output_file] # found
    /\ Len(files[output_file].entries) >= 2
    /\ Entries(files[output_file].entries) = Entries(token_index)
    /\ StrictlyAscending(files[output_file].entries)

\* ------------------------------------------------------------ C12
\* C12: statistics accounting.  Between iterations total_processed is
\* successful + failed; when the loop has run to the end of a range
\* start_id <= end_id, skipped + successful + failed is the size of the range,
\* and from an empty index the keys of the index are exactly the IDs of the
\* range that did not fail, as many as successful counts.
StatisticsAccounting ==
    /\ (alive /\ pc \in {"loop", "finally", "done"})
         => stats.total_processed = stats.successful + stats.failed
    /\ (alive /\ pc = "done" /\ left = "exhausted" /\ start_id <= end_id)
         => /\ stats.skipped + stats.successful + stats.failed
                  = end_id - start_id + 1
            /\ loaded = <<>>
                 => /\ Keys(token_index) = (start_id..end_id) \ failedIds
                    /\ stats.successful = Cardinality(Keys(token_index))
                    /\ stats.skipped = 0

\* C12 witness: from an empty index, the sweep of 1..3 resolved 1 and 3 and
\* failed on 2.
TwoResolvedOneFailed ==
    /\ alive /\ pc = "done" /\ left = "exhausted"
    /\ loaded = <<>>
    /\ start_id = 1 /\ end_id = 3
    /\ failedIds = {2}
    /\ Keys(token_index) = {1, 3}
    /\ stats = [total_processed |-> 3, successful |-> 2, failed |-> 1, skipped |-> 0]

\* ------------------------------------------------------------ C13
\* A step that ends a flush without the rename having taken the temp file:
\* open, json.dump or os.replace raised.
FlushFails ==
    /\ Stepped
    /\ pc \in {"save_open", "save_write", "save_replace"}
    /\ pc' \notin {"save_open", "save_write", "save_replace"}
    /\ ~(pc = "save_replace" /\ Exists(files[temp_file]) /\ ~Exists(files'[temp_file]))

\* C13: a checkpoint save failure is not fatal.  The step in which a flush
\* fails leaves the index and the checkpoint file as they were and the process
\* running; after an interval flush the loop goes on with the next ID, the
\* statistics untouched, and after the final flush sweep_token_ids returns.
SaveFailureNotFatal ==
    [][FlushFails
         => /\ alive'
            /\ saveErrors'
            /\ token_index' = token_index
            /\ files'[output_file] = files[output_file]
            /\ stats' = stats
            /\ caller = "interval" => (pc' = "loop" /\ token_id' = token_id + 1)
            /\ caller = "final" => pc' = "done"]_vars

\* C13 witness: the interval flush failed part-way through json.dump (the temp
\* file is cut short), the checkpoint is as found, and the sweep has resolved
\* the next ID since.
ContinuedAfterFailedFlush ==
    /\ alive /\ pc = "returned" /\ success
    /\ saveErrors /\ intervalSaves
    /\ token_counter = 0
    /\ files[output_file] = found
    /\ Exists(files[temp_file]) /\ ~Parseable(files[temp_file])
    /\ Len(token_index) > Len(loaded) + 1

\* ------------------------------------------------------------ C14
RECURSIVE DecodeUtf8(_)
\* The text a byte sequence is the UTF-8 encoding of (shortest form only);
\* a sequence that is not well-formed UTF-8 decodes to a text holding -1.
DecodeUtf8(b) ==
    IF b = <<>> THEN <<>>
    ELSE LET n == IF b[1] < 128 THEN 1
                  ELSE IF b[1] \in 192..223 THEN 2
                  ELSE IF b[1] \in 224..239 THEN 3
                  ELSE IF b[1] \in 240..247 THEN 4
                  ELSE 0
         IN  IF n = 0 \/ Len(b) < n \/ (\E i \in 2..n : b[i] \notin 128..191)
             THEN <<-1>>
             ELSE LET cp == CASE n = 1 -> b[1]
                              [] n = 2 -> (b[1] - 192) * 64 + (b[2] - 128)
                              [] n = 3 -> (b[1] - 224) * 4096 + (b[2] - 128) * 64
                                            + (b[3] - 128)
                              [] n = 4 -> (b[1] - 240) * 262144 + (b[2] - 128) * 4096
                                            + (b[3] - 128) * 64 + (b[4] - 128)
                      least == CASE n = 1 -> 0 [] n = 2 -> 128
                                 [] n = 3 -> 2048 [] n = 4 -> 65536
                  IN  IF cp < least THEN <<-1>>
                      ELSE <<cp>> \o DecodeUtf8(SubSeq(b, n + 1, Len(b)))

\* The record's bytes are the UTF-8 encoding of its text.
ByteConsistent(rec) ==
    /\ \A i \in 1..Len(rec.bytes) : rec.bytes[i] \in 0..255
    /\ DecodeUtf8(rec.bytes) = rec.character

\* C14: byte consistency.  Every record of the index, of the checkpoint file
\* and of the temp file, resolved by this process or loaded from the
\* checkpoint an earlier run wrote, has the UTF-8 encoding of its text as
\* bytes.
ByteConsistency ==
    /\ \A rec \in Entries(token_index) : ByteConsistent(rec)
    /\ \A p \in Paths : \A rec \in Entries(files[p].entries) : ByteConsistent(rec)

\* C14 witness: the checkpoint this process wrote holds a record carried over
\* from the loaded checkpoint and a record resolved in this run whose text has
\* a two-byte encoding.
WroteCarriedAndResolved ==
    /\ alive
    /\ Parseable(files[output_file]) /\ files[output_file] # found
    /\ \E rec \in Entries(files[output_file].entries) : rec.id \in Keys(loaded)
    /\ \E rec \in Entries(files[output_file].entries) :
          /\ rec.id \notin Keys(loaded)
          /\ rec.character = <<233>>
          /\ rec.bytes = <<195, 169>>

\* ------------------------------------------------------------ C15
\* How the steps of the sweeper move the save counter: one up for each
\* processed ID, the flush called exactly when it reaches the interval, back
\* to 0 when that flush is over, and no other change.
CounterSteps ==
    /\ (Stepped /\ pc = "returned")
         => /\ token_counter' = token_counter + 1
            /\ (token_counter' >= save_interval)
                 <=> (pc' = "save_open" /\ caller' = "interval")
    /\ (Stepped /\ pc' = "loop" /\ pc \in {"save_open", "save_write", "save_replace"})
         => token_counter' = 0
    /\ (Stepped /\ pc \in {"loop", "attempt", "sleep", "finally"})
         => token_counter' = token_counter

\* The processed IDs whose record is in the index and not in the checkpoint.
UnflushedIds ==
    {rec.id : rec \in Entries(token_index) \ Readable(files[output_file])}

SequentialAscendingSweep ==
    /\ [][/\ Stepped => token_id' \in {token_id, token_id + 1}
          /\ (Stepped /\ pc' = "loop") => token_id' = token_id + 1
          /\ (Stepped /\ token_id' # token_id) => pc' = "loop"
          /\ (Stepped /\ tries' # tries)
               => /\ token_id' = token_id
                  /\ token_id \in start_id..end_id
                  /\ \/ pc = "attempt" /\ tries' = tries + 1
                     \/ pc = "loop" /\ tries' = 0]_vars
    /\ [](alive => /\ token_id >= start_id
                   /\ token_id <= end_id + 1 \/ token_id = start_id
                   /\ pc \in {"attempt", "sleep", "returned"}
                        => token_id \in start_id..end_id)
    /\ []((alive /\ start_id > end_id)
            => /\ pc \in {"loop", "finally", "done"}
               /\ token_id = start_id
               /\ stats = ZeroStats
               /\ tries = 0 /\ token_counter = 0 /\ caller = "none"
               /\ token_index = loaded
               /\ files[output_file] = found /\ ~Exists(files[temp_file]))

\* C16 witness: the third and last ID of the range 1..3 is being requested,
\* the first two having been processed.
RequestingLastOfThree ==
    /\ alive /\ pc = "attempt"
    /\ start_id = 1 /\ end_id = 3 /\ token_id = 3
    /\ stats.total_processed = 2
    /\ tries > 0

\* ------------------------------------------------------------ C17
\* The lines that the stream loop passes over: empty lines, the [DONE]
\* marker, lines that are not valid JSON.
Skippable(line) == line.type \in {"empty", "done", "invalid_json"}

\* The position of the first fragment among the lines, 0 when there is none.
FirstFragment(lines) ==
    IF \E i \in 1..Len(lines) : lines[i].type = "fragment"
    THEN CHOOSE i \in 1..Len(lines) :
            /\ lines[i].type = "fragment"
            /\ \A j \in 1..(i - 1) : lines[j].type # "fragment"
    ELSE 0

\* C17: first fragment only.  An attempt succeeds exactly when the response
\* has status 200 and its first fragment has an encodable text and only
\* skippable lines before it; the record then stored is built from that
\* fragment, whatever fragments follow it.  After the success no further
\* attempt is made for the ID, and no step of the sweeper changes or removes
\* a record of the index.
FirstFragmentOnly ==
    [][/\ (Stepped /\ pc = "attempt")
            => LET lines == response'.lines
                   k == FirstFragment(lines)
                   usable == /\ response'.kind = "http"
                             /\ response'.status = HTTP_OK
                             /\ k > 0
                             /\ \A i \in 1..(k - 1) : Skippable(lines[i])
                             /\ CanEncode(lines[k].text)
               IN  /\ usable <=> (pc' = "returned" /\ success')
                   /\ usable
                        => /\ Entry(token_index', token_id).character = lines[k].text
                           /\ Keys(token_index') = Keys(token_index) \cup {token_id}
                           /\ tries' = tries + 1
       /\ (Stepped /\ pc = "returned" /\ success)
            => /\ pc' \in {"loop", "save_open"}
               /\ tries' = tries
       /\ Stepped => Entries(token_index) \subseteq Entries(token_index')]_vars

\* C17 witness: the response held the fragment "a" and then another fragment
\* with another text; the attempt succeeded and the record holds "a".
StoredFirstOfTwoFragments ==
    /\ alive /\ pc = "returned" /\ success
    /\ Len(response.lines) = 2
    /\ response.lines[1] = [type |-> "fragment", text |-> <<97>>]
    /\ response.lines[2] = [type |-> "fragment", text |-> <<233>>]
    /\ Entry(token_index, token_id) = TokenRecord(token_id, <<97>>)

\* ------------------------------------------------------------ C18
\* C18: termination and progress.  sweep_token_ids returns in the end; when
\* the loop ran to the end of the range, every ID of the range was loaded (and
\* skipped), resolved or counted as failed; once cancellation is requested the
\* run returns, and from the top of the loop it goes straight to the finally
\* clause without starting another ID.
TerminationAndProgress ==
    /\ <>(pc = "done")
    /\ [](alive /\ should_exit => <>(pc = "done"))
    /\ []((pc = "done" /\ left = "exhausted")
            => /\ \A i \in start_id..end_id :
                    \/ i \in Keys(loaded)
                    \/ i \in Keys(token_index) \ Keys(loaded)
                    \/ i \in failedIds
               /\ token_id = IF start_id <= end_id THEN end_id + 1 ELSE start_id)
    /\ [][(Stepped /\ should_exit /\ pc = "loop")
            => (pc' = "finally" /\ token_id' = token_id)]_vars

\* C18 witness: the sweep of 1..3 has returned: ID 1 failed after its
\* attempts, and the sweep went on to skip one ID and resolve the other.
WentOnAfterFailure ==
    /\ alive /\ pc = "done" /\ left = "exhausted"
    /\ start_id = 1 /\ end_id = 3
    /\ failedIds = {1}
    /\ stats.skipped = 1 /\ stats.successful = 1
    /\ Keys(token_index) = {2, 3}

\* ------------------------------------------------------------ C19
\* C19: the index grows in step with the success counter.  Between iterations
\* the index holds as many records as were loaded at startup plus
\* stats.successful, under distinct keys, and no step of the sweeper removes
\* or changes a record of the index.
IndexGrowsWithSuccesses ==
    /\ []((alive /\ pc \in {"loop", "finally", "done"})
            => /\ Len(token_index) = Len(loaded) + stats.successful
               /\ DistinctKeys(token_index)
               /\ Entries(loaded) \subseteq Entries(token_index))
    /\ [][Stepped => Entries(token_index) \subseteq Entries(token_index')]_vars

\* C19 witness: one record was loaded, two IDs were resolved and one attempt
\* series failed or none: the index holds three records at the top of the loop.
LoadedOnePlusTwoResolved ==
    /\ alive /\ pc = "loop"
    /\ Len(loaded) = 1
    /\ stats.successful = 2
    /\ Len(token_index) = 3

====
